---- MODULE Spec2Model ----
(***************************************************************************)
(* PRISM frontend: token middleware (both revisions), easyFetch wrapper,   *)
(* data controllers, GetSimilarityPairs query builder, the login component,*)
(* the /refresh, /logout and OAuth callback pages, the NextAuth callbacks  *)
(* (signIn, redirect, jwt, session), the student-comparison page and the   *)
(* navigation between /login and the protected routes.                     *)
(***************************************************************************)
EXTENDS Integers, Sequences, FiniteSets, TLC

VARIABLES
    mwAccess,     \* value of the prism-access cookie of the request
    mwRefresh,    \* value of the prism-refresh cookie of the request
    mwNow,        \* currentTime = floor(Date.now() / 1000)
    mwOut,        \* response of the middleware: "pending" until it has run
    calls,        \* easyFetch calls: call id -> frame of the call and of its caller
    location,     \* window.location.href
    spArgs,       \* arguments of GetSimilarityPairs
    spParams,     \* URLSearchParams built by GetSimilarityPairs (<<>> until built)
    spBuilt,      \* TRUE once GetSimilarityPairs has built its url
    login,        \* LoginComponent + AuthProvider state
    mwOut3,       \* response of the middleware revision of part_003
    refreshPage,  \* the /refresh page
    logoutPage,   \* the /logout page and the has-cookie check it calls
    callback,     \* the OAuth callback page
    signIn,       \* the signIn callback of NextAuth
    redirect,     \* the redirect callback of NextAuth
    jwt,          \* the jwt and session callbacks of NextAuth and the token they keep
    compare,      \* the student-comparison page
    browser       \* navigation between /login and the protected routes

vars == <<mwAccess, mwRefresh, mwNow, mwOut, calls, location,
          spArgs, spParams, spBuilt, login,
          mwOut3, refreshPage, logoutPage, callback, signIn,
          redirect, jwt, compare, browser>>

mwVars    == <<mwAccess, mwRefresh, mwNow, mwOut, mwOut3>>
fetchVars == <<calls, location>>
spVars    == <<spArgs, spParams, spBuilt>>
pageVars  == <<refreshPage, logoutPage, callback, signIn>>
authVars  == <<redirect, jwt>>
appVars   == <<compare, browser>>

(***************************************************************************)
(* Bounds                                                                  *)
(***************************************************************************)
MaxExp   == 3     \* largest exp claim of a token
MaxNow   == 2     \* largest current time
NCalls   == 2     \* number of easyFetch calls that may overlap
MaxPushes == 4    \* router.push calls after which the user stops typing and submitting
MaxSubmits == 2   \* submissions of the login form
MaxClock == 3     \* largest time, in seconds, the jwt callback is called at
MaxRefreshes == 2 \* refresh requests the jwt callback sends
MaxSelects == 2   \* selections made on the student-comparison page
MaxBounces == 2   \* navigations away from /login that are followed

(***************************************************************************)
(* JavaScript values                                                       *)
(***************************************************************************)
Undef == "undefined"
Null  == "null"
NoExp == -1       \* payload without an exp claim: jwtDecode(t)?.exp is undefined

\* !x for a number | undefined
TruthyNum(n) == n # NoExp /\ n # 0

\* response.ok
IsOk(status) == status >= 200 /\ status <= 299

(***************************************************************************)
(* Middleware (src/unnamed/part_002)                                       *)
(***************************************************************************)
\* cookie values: no cookie, cookie with the empty string, a string that
\* jwtDecode rejects, and a decodable token with its exp claim
AbsentTok  == [kind |-> "absent",  exp |-> NoExp]
EmptyTok   == [kind |-> "empty",   exp |-> NoExp]
GarbageTok == [kind |-> "garbage", exp |-> NoExp]
Jwt(e)     == [kind |-> "jwt", exp |-> e]
Tokens     == {AbsentTok, EmptyTok, GarbageTok} \cup {Jwt(e) : e \in {NoExp} \cup 0..MaxExp}
Times      == 1..MaxNow

\* truthiness of request.cookies.get(name)?.value
TruthyTok(t) == t.kind \in {"garbage", "jwt"}
\* jwtDecode(t) does not throw
Decodes(t) == t.kind = "jwt"

Outcomes == {"next", "/login", "/logout", "/refresh"}

\* line 32: access_exp && currentTime > access_exp
MwAccessExpired(access_exp, now) == TruthyNum(access_exp) /\ now > access_exp

\* line 47: refresh_exp && currentTime < refresh_exp
MwRefreshValid(refresh_exp, now) == TruthyNum(refresh_exp) /\ now < refresh_exp

Middleware002(access, refresh, now) ==
    IF ~TruthyTok(access) /\ ~TruthyTok(refresh) THEN "/login"
    ELSE IF TruthyTok(access) /\ ~Decodes(access) THEN "/logout"
    ELSE LET access_exp == IF TruthyTok(access) THEN access.exp ELSE NoExp IN
         IF MwAccessExpired(access_exp, now)
         THEN IF ~TruthyTok(refresh) THEN "/login"
              ELSE IF ~Decodes(refresh) THEN "/logout"
              ELSE IF MwRefreshValid(refresh.exp, now) THEN "/refresh"
              ELSE "/login"
         ELSE "next"

MwIdle ==
    /\ mwAccess = AbsentTok
    /\ mwRefresh = AbsentTok
    /\ mwNow = 1
    /\ mwOut = "pending"
    /\ mwOut3 = "pending"

\* a request reaches the matcher
MwRequest ==
    /\ mwOut # "pending"
    /\ mwOut3 # "pending"
    /\ mwAccess' \in Tokens
    /\ mwRefresh' \in Tokens
    /\ mwNow' \in Times
    /\ mwOut' = "pending"
    /\ mwOut3' = "pending"
    /\ UNCHANGED <<fetchVars, spVars, login, pageVars, authVars, appVars>>

\* the middleware answers the request
MwRun ==
    /\ mwOut = "pending"
    /\ mwOut' = Middleware002(mwAccess, mwRefresh, mwNow)
    /\ UNCHANGED <<mwAccess, mwRefresh, mwNow, mwOut3, fetchVars, spVars, login, pageVars, authVars, appVars>>

(***************************************************************************)
(* Middleware, second revision (src/unnamed/part_003)                      *)
(***************************************************************************)
\* lines 14-22: the function-level access_exp is declared and never assigned;
\* the try block declares a constant of its own with the same name, which
\* holds the decoded claim and goes out of scope with the block
OuterAccessExp003(access) == NoExp
\* lines 15 and 30-34: the same for refresh_exp
OuterRefreshExp003(refresh) == NoExp

Middleware003(access, refresh, now) ==
    IF ~TruthyTok(access) THEN "/logout"
    ELSE IF ~Decodes(access) THEN "/logout"
    ELSE LET access_exp == OuterAccessExp003(access) IN
         IF MwAccessExpired(access_exp, now)
         THEN IF ~TruthyTok(refresh) THEN "/logout"
              ELSE IF ~Decodes(refresh) THEN "/logout"
              ELSE IF MwRefreshValid(OuterRefreshExp003(refresh), now) THEN "/refresh"
              ELSE "/logout"
         ELSE "next"

\* the middleware of part_003 answers the request
MwRun003 ==
    /\ mwOut3 = "pending"
    /\ mwOut3' = Middleware003(mwAccess, mwRefresh, mwNow)
    /\ UNCHANGED <<mwAccess, mwRefresh, mwNow, mwOut, fetchVars, spVars, login, pageVars, authVars, appVars>>

(***************************************************************************)
(* easyFetch (src/unnamed/part_007)                                        *)
(***************************************************************************)
Calls    == 1..NCalls
\* HTTP statuses the backend answers with; 0 stands for "no response"
Statuses == {200, 401, 404, 500}
NetErr   == 0

ApiUrl(path, query) == [path |-> path, query |-> query]
NoUrl      == ApiUrl("", <<>>)
RefreshUrl == ApiUrl("http://localhost:8000/api/token/refresh", <<>>)

\* RequestInit as passed by a caller; Undef for a key that is not set
Options(method, credentials) == [method |-> method, credentials |-> credentials]
Request(url, init) == [url |-> url, method |-> init.method, credentials |-> init.credentials]

FetchInitCallerWins(options) ==
    [options EXCEPT !.credentials = IF @ = Undef THEN "include" ELSE @]
\* lines 13-14 and 31-32: { ...options, credentials: "include" }
FetchInit(options) == [options EXCEPT !.credentials = "include"]

\* lines 22-25
RefreshRequest == Request(RefreshUrl, Options("post", "include"))

\* a Response: its status and the request of the call it answers
Response(status, of) == [status |-> status, of |-> of]
NoRes == Response(0, 0)

NoBody   == [kind |-> "none", detail |-> Undef, hasResults |-> FALSE, results |-> <<>>,
             user |-> Undef, errors |-> <<>>, hasErrors |-> FALSE]
NoResult == [kind |-> "none", detail |-> "", status |-> 0, message |-> "", data |-> NoBody,
             students |-> <<>>]

IdleFrame ==
    [pc |-> "idle", caller |-> "none", url |-> NoUrl, options |-> Options(Undef, Undef),
     reqs |-> <<>>, resps |-> <<>>, res |-> NoRes, refreshRes |-> NoRes,
     err |-> "none", nav |-> FALSE, body |-> NoBody, result |-> NoResult]

\* the call and its caller have run to completion, or the slot was never used
Finished(f) ==
    \/ f.pc \in {"idle", "done"}
    \/ f.caller = "raw" /\ f.pc \in {"returned", "thrown"}

\* lines 7-15: the call starts and issues the original request
EasyFetchCall(c, caller, url, options) ==
    /\ Finished(calls[c])
    /\ calls' = [calls EXCEPT ![c] =
          [IdleFrame EXCEPT !.pc = "fetch1", !.caller = caller, !.url = url,
                            !.options = options,
                            !.reqs = <<Request(url, FetchInit(options))>>]]

TokenExpiredAnyClientError(status) == status >= 400 /\ status < 500
\* line 18: res.status === 401
TokenExpired(status) == status = 401

RefreshOkUnless401(status) == status # 401
\* line 28: refreshRes.ok
RefreshOk(status) == IsOk(status)

\* lines 12-25: the original request settles
FirstResponseSharedRefresh(c) ==
    /\ calls[c].pc = "fetch1"
    /\ \E s \in Statuses \cup {NetErr} :
         LET f == calls[c] IN
         calls' = [calls EXCEPT ![c] =
            IF s = NetErr
            THEN [f EXCEPT !.pc = "thrown", !.err = "TypeError", !.resps = Append(@, s)]
            ELSE IF TokenExpired(s)
            THEN IF \E d \in Calls \ {c} : calls[d].pc = "refresh"
                 THEN [f EXCEPT !.pc = "fetch2", !.res = Response(s, 1),
                                !.resps = Append(@, s),
                                !.reqs = Append(@, Request(f.url, FetchInit(f.options)))]
                 ELSE [f EXCEPT !.pc = "refresh", !.res = Response(s, 1),
                                !.resps = Append(@, s),
                                !.reqs = Append(@, RefreshRequest)]
            ELSE [f EXCEPT !.pc = "returned", !.res = Response(s, 1),
                           !.resps = Append(@, s)]]
    /\ UNCHANGED <<location, mwVars, spVars, login, pageVars, authVars, appVars>>
FirstResponse(c) ==
    /\ calls[c].pc = "fetch1"
    /\ \E s \in Statuses \cup {NetErr} :
         LET f == calls[c] IN
         calls' = [calls EXCEPT ![c] =
            IF s = NetErr
            THEN [f EXCEPT !.pc = "thrown", !.err = "TypeError", !.resps = Append(@, s)]
            ELSE IF TokenExpired(s)
            THEN [f EXCEPT !.pc = "refresh", !.res = Response(s, 1),
                           !.resps = Append(@, s),
                           !.reqs = Append(@, RefreshRequest)]
            ELSE [f EXCEPT !.pc = "returned", !.res = Response(s, 1),
                           !.resps = Append(@, s)]]
    /\ UNCHANGED <<location, mwVars, spVars, login, pageVars, authVars, appVars>>

\* lines 22-39: the refresh request settles
RefreshResponse(c) ==
    /\ calls[c].pc = "refresh"
    /\ \E s \in Statuses \cup {NetErr} :
         LET f == calls[c] IN
         /\ calls' = [calls EXCEPT ![c] =
              IF s = NetErr
              THEN [f EXCEPT !.pc = "thrown", !.err = "TypeError", !.resps = Append(@, s)]
              ELSE IF RefreshOk(s)
              THEN [f EXCEPT !.pc = "fetch2", !.refreshRes = Response(s, 2),
                             !.resps = Append(@, s),
                             !.reqs = Append(@, Request(f.url, FetchInit(f.options)))]
              ELSE [f EXCEPT !.pc = "thrown", !.refreshRes = Response(s, 2),
                             !.resps = Append(@, s),
                             !.err = "Unauthorized", !.nav = TRUE]]
         /\ location' = IF s # NetErr /\ ~RefreshOk(s) THEN "/login" ELSE location
    /\ UNCHANGED <<mwVars, spVars, login, pageVars, authVars, appVars>>

RetryResponseRefreshAgain(c) ==
    /\ calls[c].pc = "fetch2"
    /\ \E s \in Statuses \cup {NetErr} :
         LET f == calls[c] IN
         calls' = [calls EXCEPT ![c] =
            IF s = NetErr
            THEN [f EXCEPT !.pc = "thrown", !.err = "TypeError", !.resps = Append(@, s)]
            ELSE IF s = 401
            THEN [f EXCEPT !.pc = "refresh", !.res = Response(s, 3),
                           !.resps = Append(@, s),
                           !.reqs = Append(@, RefreshRequest)]
            ELSE [f EXCEPT !.pc = "returned", !.res = Response(s, 3),
                           !.resps = Append(@, s)]]
    /\ UNCHANGED <<location, mwVars, spVars, login, pageVars, authVars, appVars>>

\* lines 30-33 and 42: the retried request settles
RetryResponse(c) ==
    /\ calls[c].pc = "fetch2"
    /\ \E s \in Statuses \cup {NetErr} :
         LET f == calls[c] IN
         calls' = [calls EXCEPT ![c] =
            IF s = NetErr
            THEN [f EXCEPT !.pc = "thrown", !.err = "TypeError", !.resps = Append(@, s)]
            ELSE [f EXCEPT !.pc = "returned", !.res = Response(s, 3),
                           !.resps = Append(@, s)]]
    /\ UNCHANGED <<location, mwVars, spVars, login, pageVars, authVars, appVars>>

EasyFetchStep(c) == FirstResponse(c) \/ RefreshResponse(c) \/ RetryResponse(c)

\* a page calls easyFetch directly with its own options
RawUrl == ApiUrl("http://localhost:8000/api/x", <<>>)
RawCredentials == {Undef, "omit", "include"}
RawCall(c) ==
    /\ \E cred \in RawCredentials : EasyFetchCall(c, "raw", RawUrl, Options("GET", cred))
    /\ location' = location
    /\ UNCHANGED <<mwVars, spVars, login, pageVars, authVars, appVars>>

FetchIdle ==
    /\ calls = [c \in Calls |-> IdleFrame]
    /\ location = "/semesters"

(***************************************************************************)
(* GetSimilarityPairs (src/frontend/src/controllers/similarityPairs.ts)    *)
(***************************************************************************)
\* number | null | undefined
UndefN == -1
NullN  == -2

Digits == <<"0", "1", "2", "3", "4", "5", "6", "7", "8", "9">>
RECURSIVE NumStr(_)
\* Number.prototype.toString for a natural number
NumStr(n) == IF n < 10 THEN Digits[n + 1] ELSE NumStr(n \div 10) \o Digits[(n % 10) + 1]

Param(key, value) == <<key, value>>

IsGivenAndNonZero(v) == v # NullN /\ v # UndefN /\ v # 0
\* lines 21, 24, ..., 40: x !== null && x !== undefined
IsGiven(v) == v # NullN /\ v # UndefN

\* line 23: if (assignment_id)
IsTruthy(v) == v # NullN /\ v # UndefN /\ v # 0

AppendIfGiven(params, key, v) ==
    IF IsGiven(v) THEN Append(params, Param(key, NumStr(v))) ELSE params

AppendIfTruthy(params, key, v) ==
    IF IsTruthy(v) THEN Append(params, Param(key, NumStr(v))) ELSE params

\* lines 19-43: the URLSearchParams of the request, in the order of the appends
PairsParams(a) ==
    LET p0  == <<>>
        p1  == AppendIfGiven(p0, "course", a.course)
        p2  == AppendIfTruthy(p1, "asid", a.assignment_id)
        p3  == AppendIfGiven(p2, "course1", a.course1)
        p4  == AppendIfGiven(p3, "course2", a.course2)
        p5  == AppendIfGiven(p4, "student1", a.student1)
        p6  == AppendIfGiven(p5, "student2", a.student2)
        p7  == AppendIfGiven(p6, "semester", a.semester)
        p8  == AppendIfGiven(p7, "semester1", a.semester1)
        p9  == AppendIfGiven(p8, "semester2", a.semester2)
        p10 == AppendIfGiven(p9, "page_size", a.page_size)
        p11 == AppendIfGiven(p10, "page", a.page)
    IN  Append(p11, Param("ordering", "-percentage"))

\* line 45
PairsUrl(a) ==
    ApiUrl("http://localhost:8000/api/cheating/submission-similarity-pairs/", PairsParams(a))

OptionalFilters == {"course", "course1", "course2", "student1", "student2",
                    "semester", "semester1", "semester2", "page_size", "page"}
ArgVals == {UndefN, NullN, 0, 1}
\* 0 is drawn for assignment_id, the first filter and the paging arguments;
\* the other filters are undefined, null or an id
ZeroArgs  == {"assignment_id", "course", "page_size", "page"}
PairsArgs(z, n) ==
    [k \in {"assignment_id"} \cup OptionalFilters |-> IF k \in ZeroArgs THEN z[k] ELSE n[k]]
NoArgs == [k \in {"assignment_id"} \cup OptionalFilters |-> UndefN]

PairsIdle ==
    /\ spArgs = NoArgs
    /\ spParams = <<>>
    /\ spBuilt = FALSE

\* the page calls GetSimilarityPairs, which builds the url of its request
BuildPairsUrl ==
    /\ ~spBuilt
    /\ spParams' = PairsUrl(spArgs).query
    /\ spBuilt' = TRUE
    /\ UNCHANGED <<spArgs, mwVars, fetchVars, login, pageVars, authVars, appVars>>


(***************************************************************************)
(* Data controllers (src/frontend/src/controllers/*.ts)                    *)
(***************************************************************************)
Controllers == {"GetSemesters", "GetCourses", "GetAssignments", "GetSubmissions",
                "GetSimilarityPairs", "GetSubmittedStudents"}

\* the fixed text of `data.detail ?? "..."` of each controller
DefaultDetail(caller) ==
    CASE caller = "GetSemesters"         -> "Failed to fetch semesters."
      [] caller = "GetCourses"           -> "Failed to fetch courses."
      [] caller = "GetAssignments"       -> "Failed to fetch assignments."
      [] caller = "GetSubmissions"       -> "Failed to fetch submissions."
      [] caller = "GetSimilarityPairs"   -> "Failed to fetch similarity pairs."
      [] caller = "GetSubmittedStudents" -> "Failed to fetch students from submissions."

\* the message of the catch block of each controller
CatchMessage(caller) ==
    CASE caller = "GetSubmissions"       -> "An unexpected error occurred during fetch."
      [] caller = "GetSubmittedStudents" -> "Something went wrong fetching submitted students."
      [] OTHER                           -> "Something went wrong during fetch."

\* What response.json() yields: a rejection ("notjson"), the JSON value null,
\* or an object.  detail is Undef (no key), Null or a text; results is a list
\* of submissions, each given by the id of its student (0: student is null).
JsonBody(detail, hasResults, results) ==
    [NoBody EXCEPT !.kind = "json", !.detail = detail,
                   !.hasResults = hasResults, !.results = results]
NotJsonBody  == [NoBody EXCEPT !.kind = "notjson"]
NullBody     == [NoBody EXCEPT !.kind = "null"]
BodyDetails  == {Undef, Null, "backend detail"}
BodyResults  == {<<>>, <<2, 1, 2>>, <<0, 1>>}
DataBodies   ==
    {NotJsonBody, NullBody}
    \cup {JsonBody(d, FALSE, <<>>) : d \in BodyDetails}
    \cup {JsonBody(d, TRUE, r) : d \in BodyDetails, r \in BodyResults}

RECURSIVE Ascending(_)
\* Object.values of an object with integer keys: ascending key order
Ascending(S) ==
    IF S = {} THEN <<>>
    ELSE LET m == CHOOSE x \in S : \A y \in S : x <= y
         IN  <<m>> \o Ascending(S \ {m})

\* students.ts lines 53-60: the students of the submissions, one per id
UniqueStudents(results) ==
    Ascending({results[i] : i \in {j \in 1..Len(results) : results[j] # 0}})

DataResult(data)       == [NoResult EXCEPT !.kind = "data", !.data = data]
StudentsResult(list)   == [NoResult EXCEPT !.kind = "students", !.students = list]
MessageResult(text)    == [NoResult EXCEPT !.kind = "message", !.message = text]
DetailResult(detail, status) ==
    [NoResult EXCEPT !.kind = "detail", !.detail = detail, !.status = status]

DetailOrUndefinedOnly(body, fallback) ==
    IF body.detail = Undef THEN fallback ELSE body.detail
\* data.detail ?? fallback
DetailOr(body, fallback) ==
    IF body.detail \in {Undef, Null} THEN fallback ELSE body.detail

\* the else branch: { detail: data.detail ?? "...", status: response.status }
ErrorResult(caller, body, status) ==
    DetailResult(DetailOr(body, DefaultDetail(caller)), status)

\* The body of the try block after easyFetch has returned res, and the catch
\* block: the value the controller's promise resolves with.
ControllerResult(caller, f, body) ==
    IF f.pc = "thrown" THEN MessageResult(CatchMessage(caller))
    ELSE IF body.kind = "notjson" THEN MessageResult(CatchMessage(caller))
    ELSE IF IsOk(f.res.status)
    THEN IF caller = "GetSubmittedStudents"
         THEN IF body.kind = "null" \/ ~body.hasResults
              THEN MessageResult(CatchMessage(caller))
              ELSE StudentsResult(UniqueStudents(body.results))
         ELSE DataResult(body)
    ELSE IF body.kind = "null" THEN MessageResult(CatchMessage(caller))
    ELSE ErrorResult(caller, body, f.res.status)

Ids == {1, 2}
Q1(k1, v1) == <<Param(k1, NumStr(v1))>>
Q2(k1, v1, k2, v2) == <<Param(k1, NumStr(v1)), Param(k2, NumStr(v2))>>

CallController(caller, url) ==
    /\ EasyFetchCall(1, caller, url, Options("GET", Undef))
    /\ UNCHANGED <<location, mwVars, spVars, login, pageVars, authVars, appVars>>

\* semesters.ts lines 5-13
GetSemesters ==
    \E uid \in Ids :
       CallController("GetSemesters",
          ApiUrl("http://localhost:8000/api/course/semester/get-semesters/", Q1("uid", uid)))

\* courses.ts lines 5-13
GetCourses ==
    \E uid \in Ids, semesterid \in Ids :
       CallController("GetCourses",
          ApiUrl("http://localhost:8000/api/course/courseinstances/get-courses-by-semesters/",
                 Q2("uid", uid, "semester", semesterid)))

\* assignments.ts lines 64-81
GetAssignments ==
    \E courseId \in Ids, page \in {UndefN, NullN, 1}, page_size \in {UndefN, NullN, 1} :
       CallController("GetAssignments",
          ApiUrl("http://localhost:8000/api/assignment/assignments/get-assignments-by-course/",
                 AppendIfGiven(AppendIfGiven(Q1("course", courseId), "page", page),
                               "page_size", page_size)))

AppendIfDefined(params, key, v) ==
    IF v # UndefN THEN Append(params, Param(key, NumStr(v))) ELSE params

\* submissions.ts lines 5-25
GetSubmissions ==
    \E assignmentId \in {UndefN, 1}, courseId \in {UndefN, 1},
       semesterId \in {UndefN, 1}, studentId \in {UndefN, 1} :
       CallController("GetSubmissions",
          ApiUrl("http://localhost:8000/api/assignment/submissions/",
                 AppendIfDefined(AppendIfDefined(AppendIfDefined(AppendIfDefined(<<>>,
                    "asid", assignmentId), "course", courseId),
                    "semester", semesterId), "student", studentId)))

\* students.ts lines 33-49
GetSubmittedStudents ==
    \E course \in {NullN, 0, 1}, assignmentId \in {NullN, 1},
       semester \in {NullN, 1}, semester1 \in {NullN, 1} :
       CallController("GetSubmittedStudents",
          ApiUrl("http://localhost:8000/api/assignment/submissions/",
                 AppendIfTruthy(AppendIfTruthy(AppendIfTruthy(AppendIfTruthy(<<>>,
                    "course", course), "asid", assignmentId),
                    "semester", semester), "semester1", semester1)))

\* arguments the student-comparison page passes
PageArgs ==
    {[NoArgs EXCEPT !.assignment_id = a, !.student1 = 1, !.student2 = s2, !.page_size = 1]
        : a \in {NullN, 1}, s2 \in {NullN, 2}}

\* similarityPairs.ts lines 5-47
GetSimilarityPairs ==
    \E a \in PageArgs : CallController("GetSimilarityPairs", PairsUrl(a))

\* The controller resumes once easyFetch has settled: the rest of the try
\* block (response.json() and the branch on response.ok) or the catch block.
ControllerSettles ==
    /\ calls[1].caller \in Controllers
    /\ calls[1].pc \in {"returned", "thrown"}
    /\ \E body \in DataBodies :
         LET f == calls[1]
             b == IF f.pc = "thrown" THEN NoBody ELSE body IN
         calls' = [calls EXCEPT ![1] =
            [f EXCEPT !.pc = "done", !.body = b,
                      !.result = ControllerResult(f.caller, f, b)]]
    /\ UNCHANGED <<location, mwVars, spVars, login, pageVars, authVars, appVars>>

(***************************************************************************)
(* LoginComponent (src/unnamed/part_049, lines 24-191) and AuthProvider    *)
(* (src/unnamed/part_039)                                                  *)
(***************************************************************************)
RequiredText   == "Username and password are required."
FailedText     == "Login failed. Please try again."
UnexpectedText == "Unexpected error. Please try again later."
GoogleError    == "Google login failed."

LoginUrl == ApiUrl("http://localhost:8000/api/login", <<>>)

\* bodies of the answer to POST /api/login: user is Undef (no key) or a name,
\* errors is the non_field_errors list when hasErrors
LoginBody(user, hasErrors, errors) ==
    [NoBody EXCEPT !.kind = "json", !.user = user, !.hasErrors = hasErrors, !.errors = errors]
LoginBodies ==
    {NotJsonBody, NullBody, LoginBody("alice", FALSE, <<>>), LoginBody(Undef, FALSE, <<>>),
     LoginBody(Undef, TRUE, <<>>), LoginBody(Undef, TRUE, <<"Invalid credentials">>)}

InitLogin ==
    [hydrated |-> FALSE, username |-> "", password |-> "", loading |-> FALSE,
     message |-> Null, user |-> Null, storedUser |-> Null, loginError |-> Null,
     pushes |-> <<>>, submits |-> 0]

LoginIdle == login = InitLogin

\* lines 51-53, run after every render: if (hydrated && user?.isLoggedIn) router.push("/semesters")
AfterRender(l) ==
    IF l.hydrated /\ l.user # Null
    THEN [l EXCEPT !.pushes = Append(@, "/semesters")]
    ELSE l

AuthLoginStoreOnly(l, userData) == [l EXCEPT !.storedUser = userData]
\* part_039 lines 25-29: login(userData)
AuthLogin(l, userData) == [l EXCEPT !.user = userData, !.storedUser = userData]

\* Mount of the page: the effect of lines 41-49, the AuthProvider effect
\* (part_039 lines 19-22) and the render that follows.
LoginMount ==
    /\ ~login.hydrated
    /\ login' = AfterRender(
          [login EXCEPT !.hydrated = TRUE,
                        !.message = IF login.loginError # Null THEN login.loginError ELSE @,
                        !.loginError = Null,
                        !.user = IF login.storedUser # Null THEN login.storedUser ELSE @])
    /\ UNCHANGED <<fetchVars, mwVars, spVars, pageVars, authVars, appVars>>

CanType == login.hydrated /\ Len(login.pushes) < MaxPushes

\* line 124: onChange of the username field
SetUsername ==
    /\ CanType
    /\ \E v \in {"", "u"} : login' = AfterRender([login EXCEPT !.username = v])
    /\ UNCHANGED <<fetchVars, mwVars, spVars, pageVars, authVars, appVars>>

\* line 143: onChange of the password field
SetPassword ==
    /\ CanType
    /\ \E v \in {"", "p"} : login' = AfterRender([login EXCEPT !.password = v])
    /\ UNCHANGED <<fetchVars, mwVars, spVars, pageVars, authVars, appVars>>

FieldsMissingBoth(l) == l.username = "" /\ l.password = ""
\* line 62: !username || !password
FieldsMissing(l) == l.username = "" \/ l.password = ""

\* lines 59-73: the form is submitted (the button is disabled while loading)
HandleSubmit ==
    /\ CanType
    /\ ~login.loading
    /\ login.submits < MaxSubmits
    /\ IF FieldsMissing(login)
       THEN /\ login' = AfterRender([login EXCEPT !.message = RequiredText,
                                                  !.submits = @ + 1])
            /\ UNCHANGED calls
       ELSE /\ EasyFetchCall(1, "login", LoginUrl, Options("POST", Undef))
            /\ login' = AfterRender([login EXCEPT !.loading = TRUE, !.submits = @ + 1])
    /\ UNCHANGED <<location, mwVars, spVars, pageVars, authVars, appVars>>

\* lines 82-83: data?.non_field_errors?.[0] || "Login failed. Please try again."
FailureText(body) ==
    IF body.kind = "json" /\ body.hasErrors /\ Len(body.errors) > 0
    THEN body.errors[1]
    ELSE FailedText

LoginOutcomeNoFinally(l, f, body) ==
    LET caught == [l EXCEPT !.message = UnexpectedText]
        after ==
          IF f.pc = "thrown" \/ body.kind = "notjson" THEN caught
          ELSE IF IsOk(f.res.status)
          THEN IF body.kind = "null" \/ body.user = Undef THEN caught
               ELSE [AuthLogin(l, body.user) EXCEPT !.pushes = Append(@, "/semesters/"),
                                                    !.loading = FALSE]
          ELSE [l EXCEPT !.message = FailureText(body), !.loading = FALSE]
    IN  AfterRender(after)
\* lines 74-94: handleSubmit resumes once easyFetch has settled
LoginOutcome(l, f, body) ==
    LET caught == [l EXCEPT !.message = UnexpectedText]
        after ==
          IF f.pc = "thrown" \/ body.kind = "notjson" THEN caught
          ELSE IF IsOk(f.res.status)
          THEN IF body.kind = "null" \/ body.user = Undef THEN caught
               ELSE [AuthLogin(l, body.user) EXCEPT !.pushes = Append(@, "/semesters/")]
          ELSE [l EXCEPT !.message = FailureText(body)]
    IN  AfterRender([after EXCEPT !.loading = FALSE])

LoginSettles ==
    /\ calls[1].caller = "login"
    /\ calls[1].pc \in {"returned", "thrown"}
    /\ \E body \in LoginBodies :
         LET f == calls[1]
             b == IF f.pc = "thrown" THEN NoBody ELSE body IN
         /\ calls' = [calls EXCEPT ![1] = [f EXCEPT !.pc = "done", !.body = b]]
         /\ login' = LoginOutcome(login, f, b)
    /\ UNCHANGED <<location, mwVars, spVars, pageVars, authVars, appVars>>

(***************************************************************************)
(* /refresh page (src/frontend/src/app/(auth)/refresh/page.tsx, lines 6-35)*)
(***************************************************************************)
Answers   == Statuses \cup {NetErr}     \* a response status, or fetch rejecting
BodyKinds == {"json", "notjson"}        \* response.json() resolves or rejects

RefreshIdle == [pc |-> "idle", status |-> NetErr, body |-> "none", pushes |-> <<>>]

\* lines 9-18 and 31: the effect runs on mount and sends the refresh request
RefreshMount ==
    /\ refreshPage.pc = "idle"
    /\ refreshPage' = [refreshPage EXCEPT !.pc = "fetching"]
    /\ UNCHANGED <<mwVars, fetchVars, spVars, login, logoutPage, callback, signIn, authVars, appVars>>

\* lines 11-28: what refresh() does once the request has settled; only the
\* catch block navigates
RefreshOutcome(r, st, kind) ==
    LET b == IF st = NetErr THEN "none" ELSE kind
        caught == st = NetErr \/ b = "notjson"
    IN  [r EXCEPT !.pc = "done", !.status = st, !.body = b,
                  !.pushes = IF caught THEN Append(@, "/login") ELSE @]

RefreshSettles ==
    /\ refreshPage.pc = "fetching"
    /\ \E st \in Answers, kind \in BodyKinds :
          refreshPage' = RefreshOutcome(refreshPage, st, kind)
    /\ UNCHANGED <<mwVars, fetchVars, spVars, login, logoutPage, callback, signIn, authVars, appVars>>

(***************************************************************************)
(* OAuth callback page (src/frontend/src/app/(auth)/callback/page.tsx,     *)
(* lines 7-50); sessionStorage["loginError"] is login.loginError           *)
(***************************************************************************)
AuthFailedText     == "Authentication failed."
AuthUnexpectedText == "Unexpected error during authentication."

CallbackIdle ==
    [pc |-> "idle", idToken |-> FALSE, status |-> NetErr, body |-> NoBody, pushes |-> <<>>]

\* line 8: useSession delivers the session with its idToken
CallbackSession ==
    /\ ~callback.idToken
    /\ callback' = [callback EXCEPT !.idToken = TRUE]
    /\ UNCHANGED <<mwVars, fetchVars, spVars, login, refreshPage, logoutPage, signIn, authVars, appVars>>

\* lines 11-22 and 45: the effect sends the id token to the backend
CallbackEffect ==
    /\ callback.pc = "idle"
    /\ callback.idToken
    /\ callback' = [callback EXCEPT !.pc = "verifying"]
    /\ UNCHANGED <<mwVars, fetchVars, spVars, login, refreshPage, logoutPage, signIn, authVars, appVars>>

\* line 31: data?.non_field_errors?.[0] || "Authentication failed."
CallbackErrorText(body) ==
    IF body.kind = "json" /\ body.hasErrors /\ Len(body.errors) > 0
    THEN body.errors[1]
    ELSE AuthFailedText

CallbackStoredAlways(st, body, stored) ==
    IF st = NetErr \/ body.kind = "notjson" THEN AuthUnexpectedText
    ELSE CallbackErrorText(body)
\* lines 24-42 leave in sessionStorage["loginError"]
CallbackStored(st, body, stored) ==
    IF st = NetErr \/ body.kind = "notjson" THEN AuthUnexpectedText
    ELSE IF IsOk(st) THEN stored
    ELSE CallbackErrorText(body)

\* lines 24-42: the route pushed
CallbackRoute(st, body) ==
    IF st # NetErr /\ body.kind # "notjson" /\ IsOk(st) THEN "/dashboard" ELSE "/login"

CallbackSettles ==
    /\ callback.pc = "verifying"
    /\ \E st \in Answers, body \in LoginBodies :
          LET b == IF st = NetErr THEN NoBody ELSE body IN
          /\ callback' = [callback EXCEPT !.pc = "done", !.status = st, !.body = b,
                                          !.pushes = Append(@, CallbackRoute(st, b))]
          /\ login' = [login EXCEPT !.loginError = CallbackStored(st, b, @)]
    /\ UNCHANGED <<mwVars, fetchVars, spVars, refreshPage, logoutPage, signIn, authVars, appVars>>

\* the login page is left: the state of the component is dropped, the
\* AuthProvider, localStorage and sessionStorage stay
LoginUnmount ==
    /\ login.hydrated
    /\ ~login.loading
    /\ login' = [InitLogin EXCEPT !.user = login.user, !.storedUser = login.storedUser,
                                  !.loginError = login.loginError,
                                  !.pushes = login.pushes, !.submits = login.submits]
    /\ UNCHANGED <<mwVars, fetchVars, spVars, pageVars, authVars, appVars>>

(***************************************************************************)
(* HasCookie (src/unnamed/part_019) and the /logout page                   *)
(* (src/frontend/src/app/(auth)/logout/page.tsx, src/unnamed/part_034)     *)
(***************************************************************************)
\* a response of HasCookie: its HTTP status and the status member of its body
CookieAnswer(http, reported) == [http |-> http, reported |-> reported]
NoCookieAnswer == CookieAnswer(NetErr, 0)

\* part_019 lines 5-21. NextResponse.json(body) is given no init argument, so
\* the response has status 200 and the status constant is a member of the
\* body; jwtDecode is not guarded, so a token it rejects ends the handler
\* with an exception, which the framework answers with status 500.
HasCookie(access, refresh, now) ==
    IF ~(TruthyTok(access) /\ TruthyTok(refresh)) THEN CookieAnswer(200, 404)
    ELSE IF ~Decodes(access) THEN CookieAnswer(500, 0)
    ELSE IF MwAccessExpired(access.exp, now) THEN CookieAnswer(200, 401)
    ELSE CookieAnswer(200, 200)

LogoutRevisions == {"logout/page.tsx", "part_034"}

LogoutIdle ==
    [rev |-> "logout/page.tsx", pc |-> "idle", access |-> AbsentTok, refresh |-> AbsentTok,
     now |-> 1, session |-> FALSE, check |-> NoCookieAnswer, posts |-> 0,
     status |-> NetErr, body |-> "none", signOuts |-> 0, pushes |-> <<>>]

\* the page is visited: the effect of lines 12-44 (part_034: 12-30) starts
\* logoutFlow, which sends its first request
LogoutVisit ==
    /\ logoutPage.pc = "idle"
    /\ \E rev \in LogoutRevisions, a \in Tokens, r \in Tokens, t \in Times, se \in BOOLEAN :
          logoutPage' =
             [LogoutIdle EXCEPT !.rev = rev, !.access = a, !.refresh = r, !.now = t,
                                !.session = se,
                                !.pc = IF rev = "part_034" THEN "posting" ELSE "checking",
                                !.posts = IF rev = "part_034" THEN 1 ELSE 0]
    /\ UNCHANGED <<mwVars, fetchVars, spVars, login, refreshPage, callback, signIn, authVars, appVars>>

\* line 37 (part_034: line 21): if (session) await signOut({ callbackUrl: "/login" })
SignOutIfSession(l) == IF l.session THEN [l EXCEPT !.signOuts = @ + 1] ELSE l

\* logout/page.tsx lines 15-22 and 37-40: the has-cookie request has settled
CookieChecked(l, answer) ==
    IF answer.http = NetErr THEN [l EXCEPT !.pc = "done", !.check = answer]
    ELSE IF IsOk(answer.http)
    THEN [l EXCEPT !.pc = "posting", !.check = answer, !.posts = @ + 1]
    ELSE [SignOutIfSession(l) EXCEPT !.pc = "done", !.check = answer]

HasCookieAnswers ==
    /\ logoutPage.pc = "checking"
    /\ \E reached \in BOOLEAN :
          logoutPage' =
             CookieChecked(logoutPage,
                           IF reached
                           THEN HasCookie(logoutPage.access, logoutPage.refresh, logoutPage.now)
                           ELSE NoCookieAnswer)
    /\ UNCHANGED <<mwVars, fetchVars, spVars, login, refreshPage, callback, signIn, authVars, appVars>>

\* logout/page.tsx lines 28-40: a non-OK answer is thrown and caught, which
\* skips line 37
LogoutOutcomePage(l, st, b) ==
    IF st = NetErr \/ b = "notjson" \/ ~IsOk(st) THEN l ELSE SignOutIfSession(l)

\* part_034 lines 19-26: nothing is caught; signOut comes before the test of
\* response.ok
LogoutOutcome034(l, st, b) ==
    IF st = NetErr \/ b = "notjson" THEN l
    ELSE IF IsOk(st) THEN SignOutIfSession(l)
    ELSE [SignOutIfSession(l) EXCEPT !.pushes = Append(@, "/login")]

LogoutAnswers ==
    /\ logoutPage.pc = "posting"
    /\ \E st \in Answers, kind \in BodyKinds :
          LET b == IF st = NetErr THEN "none" ELSE kind
              after == IF logoutPage.rev = "part_034"
                       THEN LogoutOutcome034(logoutPage, st, b)
                       ELSE LogoutOutcomePage(logoutPage, st, b)
          IN  logoutPage' = [after EXCEPT !.pc = "done", !.status = st, !.body = b]
    /\ UNCHANGED <<mwVars, fetchVars, spVars, login, refreshPage, callback, signIn, authVars, appVars>>

(***************************************************************************)
(* signIn callback of NextAuth (src/unnamed/part_020, part_044, part_045)  *)
(***************************************************************************)
\* an e-mail address is the sequence of its pieces; NoEmail is a user without
\* an address (user.email is undefined or null)
NoEmail == <<>>
Emails ==
    {NoEmail,
     <<"a", "@", "unlv", ".edu">>,
     <<"a", "@", "UNLV", ".edu">>,
     <<"a", "@", "unlv", ".nevada", ".edu">>,
     <<"a", "@", "gmail", ".com">>,
     <<"unlv", ".edu", "@", "gmail", ".com">>,
     <<"a", "@", "unlv", ".edu", ".evil", ".com">>,
     <<"a", "@", "not", "unlv", ".edu">>}

\* String.prototype.includes: the pattern occurs somewhere in the string
Includes(str, pattern) ==
    \E i \in 1..(Len(str) - Len(pattern) + 1) :
        SubSeq(str, i, i + Len(pattern) - 1) = pattern

\* String.prototype.toLowerCase
ToLowerCase(str) == [i \in 1..Len(str) |-> IF str[i] = "UNLV" THEN "unlv" ELSE str[i]]

\* part_020 lines 26-29. user.email?.includes(..) is undefined without an address
EmailCheck020(email) ==
    /\ email # NoEmail
    /\ \/ Includes(email, <<"@", "unlv", ".edu">>)
       \/ Includes(email, <<"@", "unlv", ".nevada", ".edu">>)

\* part_044 lines 28-33, part_045 lines 22-27
EmailCheck044(email) ==
    /\ email # NoEmail
    /\ \/ Includes(ToLowerCase(email), <<"unlv", ".edu">>)
       \/ Includes(ToLowerCase(email), <<"unlv", ".nevada", ".edu">>)

SignInRevisions == {"part_020", "part_044", "part_045"}

SignInIdle ==
    [rev |-> "part_020", pc |-> "idle", email |-> NoEmail, idToken |-> FALSE,
     requests |-> 0, status |-> NetErr, body |-> "none", result |-> "none"]

\* NextAuth calls signIn({ user, account }): part_020 lines 24-32 answer at
\* once, part_044 lines 27-46 answer or send the validation request
SignInStart(rev, email, idToken) ==
    LET call == [SignInIdle EXCEPT !.rev = rev, !.email = email, !.idToken = idToken] IN
    IF rev = "part_020"
    THEN [call EXCEPT !.pc = "done",
                      !.result = IF EmailCheck020(email) THEN "true" ELSE "false"]
    ELSE IF ~EmailCheck044(email) THEN [call EXCEPT !.pc = "done", !.result = "false"]
    ELSE IF idToken THEN [call EXCEPT !.pc = "validating", !.requests = 1]
    ELSE [call EXCEPT !.pc = "done", !.result = "false"]

SignInCalled ==
    /\ signIn.pc \in {"idle", "done"}
    /\ \E rev \in SignInRevisions, email \in Emails, idToken \in BOOLEAN :
          signIn' = SignInStart(rev, email, idToken)
    /\ UNCHANGED <<mwVars, fetchVars, spVars, login, refreshPage, logoutPage, callback, authVars, appVars>>

\* part_044 lines 48-59: the validation request has settled
SignInResult(st, b) ==
    IF st = NetErr \/ b = "notjson" THEN "thrown"
    ELSE IF st = 401 THEN "false"
    ELSE IF st = 200 THEN "true"
    ELSE "false"

SignInSettles ==
    /\ signIn.pc = "validating"
    /\ \E st \in Answers, kind \in BodyKinds :
          LET b == IF st = NetErr THEN "none" ELSE kind IN
          signIn' = [signIn EXCEPT !.pc = "done", !.status = st, !.body = b,
                                  !.result = SignInResult(st, b)]
    /\ UNCHANGED <<mwVars, fetchVars, spVars, login, refreshPage, logoutPage, callback, authVars, appVars>>

(***************************************************************************)
(* redirect callback of NextAuth (src/frontend/src/lib/auth.ts lines 29-32,*)
(* src/unnamed/part_042 lines 62-65)                                       *)
(***************************************************************************)
\* a URL is the sequence of its pieces: scheme, pieces of the authority,
\* pieces of the path; a relative URL has no scheme
Schemes    == {"http://", "https://"}
PathPieces == {"/dashboard", "/x"}
BaseUrls   == {<<"http://", "localhost", ":3000">>, <<"https://", "prism.unlv.edu">>}
RedirectUrls ==
    {<<"/dashboard">>,
     <<"https://", "evil.com", "/x">>,
     <<"http://", "localhost", ":3000">>,
     <<"http://", "localhost", ":3000", "/dashboard">>,
     <<"http://", "localhost", ":3000", "0", "/x">>,
     <<"http://", "localhost", ":3000", "@", "evil.com", "/x">>,
     <<"https://", "prism.unlv.edu">>,
     <<"https://", "prism.unlv.edu", "/dashboard">>,
     <<"https://", "prism.unlv.edu", ".evil.com", "/x">>,
     <<"https://", "prism.unlv.edu", "@", "evil.com", "/x">>}

\* String.prototype.startsWith
StartsWith(str, prefix) ==
    Len(str) >= Len(prefix) /\ SubSeq(str, 1, Len(prefix)) = prefix

\* line 31: url.startsWith(baseUrl) ? url : baseUrl
Redirect(url, baseUrl) == IF StartsWith(url, baseUrl) THEN url ELSE baseUrl

RedirectIdle == [pc |-> "idle", url |-> <<>>, baseUrl |-> <<>>, result |-> <<>>]

\* NextAuth calls redirect({ url, baseUrl })
RedirectCalled ==
    /\ \E url \in RedirectUrls, baseUrl \in BaseUrls :
          redirect' = [pc |-> "done", url |-> url, baseUrl |-> baseUrl,
                       result |-> Redirect(url, baseUrl)]
    /\ UNCHANGED <<mwVars, fetchVars, spVars, login, pageVars, jwt, appVars>>

(***************************************************************************)
(* jwt and session callbacks of NextAuth (src/unnamed/part_044, lines      *)
(* 65-125); times are in seconds                                           *)
(***************************************************************************)
RefreshTokenError == "RefreshTokenError"
Clock == 0..MaxClock

\* the token NextAuth hands to the jwt callback at sign-in
NewToken ==
    [access_token |-> Undef, expires_at |-> 0, refresh_token |-> Undef, error |-> Undef]

JwtIdle ==
    [pc |-> "idle", token |-> NewToken, now |-> 0, session |-> Undef, last |-> "none",
     refreshes |-> 0, thrown |-> FALSE]

\* lines 122-125: session.error = token.error
SessionError(token) == token.error

\* lines 66-73: the call at sign-in, with the account of the provider
JwtAccount(token, access_token, expires_at, refresh_token) ==
    [token EXCEPT !.access_token = access_token, !.expires_at = expires_at,
                  !.refresh_token = refresh_token]

JwtSignIn ==
    /\ jwt.pc \in {"idle", "ready"}
    /\ \E expires_at \in Clock, refresh_token \in {Undef, "rt0"} :
          LET token == JwtAccount(NewToken, "at0", expires_at, refresh_token) IN
          jwt' = [jwt EXCEPT !.pc = "ready", !.token = token, !.last = "none",
                             !.session = SessionError(token), !.thrown = FALSE]
    /\ UNCHANGED <<mwVars, fetchVars, spVars, login, pageVars, redirect, appVars>>

\* time passes
JwtTick ==
    /\ jwt.now < MaxClock
    /\ jwt' = [jwt EXCEPT !.now = @ + 1]
    /\ UNCHANGED <<mwVars, fetchVars, spVars, login, pageVars, redirect, appVars>>

\* line 74: Date.now() < token.expires_at * 1000
JwtUnexpired(token, now) == now < token.expires_at

\* lines 74-93: a later call, without account; it returns the token, throws,
\* or sends the refresh request
JwtCall ==
    /\ jwt.pc = "ready"
    /\ IF JwtUnexpired(jwt.token, jwt.now)
       THEN jwt' = [jwt EXCEPT !.session = SessionError(jwt.token), !.thrown = FALSE]
       ELSE IF jwt.token.refresh_token = Undef
       THEN jwt' = [jwt EXCEPT !.thrown = TRUE]
       ELSE /\ jwt.refreshes < MaxRefreshes
            /\ jwt' = [jwt EXCEPT !.pc = "refreshing", !.refreshes = @ + 1,
                                  !.thrown = FALSE]
    /\ UNCHANGED <<mwVars, fetchVars, spVars, login, pageVars, redirect, appVars>>

\* lines 105-113: { ...token, access_token, expires_at, refresh_token }
JwtRefreshed(token, now, expires_in, refresh_token) ==
    [token EXCEPT !.access_token = "at1",
                  !.expires_at = now + expires_in,
                  !.refresh_token = IF refresh_token # Undef THEN refresh_token ELSE @]

\* lines 114-119: token.error = "RefreshTokenError"
JwtFailed(token) == [token EXCEPT !.error = RefreshTokenError]

\* lines 95-119: the refresh request has settled
JwtRefreshSettles ==
    /\ jwt.pc = "refreshing"
    /\ \E st \in Answers, kind \in BodyKinds, expires_in \in {1, 2},
          refresh_token \in {Undef, "rt1"} :
          LET ok == st # NetErr /\ kind = "json" /\ IsOk(st)
              token == IF ok
                       THEN JwtRefreshed(jwt.token, jwt.now, expires_in, refresh_token)
                       ELSE JwtFailed(jwt.token)
          IN  jwt' = [jwt EXCEPT !.pc = "ready", !.token = token,
                                 !.last = IF ok THEN "ok" ELSE "failed",
                                 !.session = SessionError(token)]
    /\ UNCHANGED <<mwVars, fetchVars, spVars, login, pageVars, redirect, appVars>>

(***************************************************************************)
(* StudentComparison (src/frontend/src/app/student_comparison/page.tsx,    *)
(* lines 340-443)                                                          *)
(***************************************************************************)
\* a list on the page is represented by the selection it was fetched for;
\* NoList is the empty list of useState([]) and of handleClear
NoList == 0
Selection(course, assignment, semester) ==
    [course |-> course, assignment |-> assignment, semester |-> semester]
NoStudents == Selection(NoList, NoList, NoList)
CompareIds == {1, 2}

CompareIdle ==
    [mounted |-> FALSE, semester |-> NullN, course |-> NullN, assignment |-> NullN,
     semesters |-> NoList, courses |-> NoList, assignments |-> NoList,
     students |-> NoStudents, inflight |-> {}, selects |-> 0, failed |-> FALSE]

CompareRequest(kind, c, n) ==
    [kind |-> kind, of |-> Selection(c.course, c.assignment, c.semester), n |-> n]

\* lines 413-443: the requests of the effects whose dependencies are in
\* changed, for the selections of c
CompareEffects(c, changed) ==
    LET n == c.selects IN
      (IF "user" \in changed THEN {CompareRequest("semesters", c, n)} ELSE {})
    \cup (IF "semester" \in changed /\ c.semester > 0
          THEN {CompareRequest("courses", c, n)} ELSE {})
    \cup (IF "course" \in changed /\ c.course > 0
          THEN {CompareRequest("assignments", c, n)} ELSE {})
    \cup (IF changed \cap {"course", "assignment", "semester"} # {}
          THEN {CompareRequest("students", c, n)} ELSE {})

\* what a render with new selections does: the effects send their requests
CompareRender(c, changed) ==
    [c EXCEPT !.inflight = @ \cup CompareEffects(c, changed)]

\* the page is mounted: every effect runs
CompareMount ==
    /\ ~compare.mounted
    /\ compare' = CompareRender([compare EXCEPT !.mounted = TRUE],
                                {"user", "semester", "course", "assignment"})
    /\ UNCHANGED <<mwVars, fetchVars, spVars, login, pageVars, authVars, browser>>

CanSelect == compare.mounted /\ compare.selects < MaxSelects

\* line 506: setSemester(Number(e.target.value))
SelectSemester ==
    /\ CanSelect
    /\ \E v \in CompareIds \ {compare.semester} :
          compare' = CompareRender([compare EXCEPT !.semester = v, !.selects = @ + 1],
                                   {"semester"})
    /\ UNCHANGED <<mwVars, fetchVars, spVars, login, pageVars, authVars, browser>>

\* line 561: setCourse(Number(e.target.value))
SelectCourse ==
    /\ CanSelect
    /\ \E v \in CompareIds \ {compare.course} :
          compare' = CompareRender([compare EXCEPT !.course = v, !.selects = @ + 1],
                                   {"course"})
    /\ UNCHANGED <<mwVars, fetchVars, spVars, login, pageVars, authVars, browser>>

\* line 607: setAssignmentId(Number(e.target.value))
SelectAssignment ==
    /\ CanSelect
    /\ \E v \in CompareIds \ {compare.assignment} :
          compare' = CompareRender([compare EXCEPT !.assignment = v, !.selects = @ + 1],
                                   {"assignment"})
    /\ UNCHANGED <<mwVars, fetchVars, spVars, login, pageVars, authVars, browser>>

\* lines 366-385: the Clear button
HandleClear ==
    /\ CanSelect
    /\ LET changed == {k \in {"semester", "course", "assignment"} : compare[k] # NullN} IN
       compare' = CompareRender([compare EXCEPT !.semester = NullN, !.course = NullN,
                                               !.assignment = NullN,
                                               !.assignments = NoList,
                                               !.students = NoStudents,
                                               !.selects = @ + 1],
                                changed)
    /\ UNCHANGED <<mwVars, fetchVars, spVars, login, pageVars, authVars, browser>>

\* lines 415-417, 423-425, 431-433, 438-442: the then-callback of a request
\* stores the data of its answer when the controller returned data
CompareStored(c, r, ok) ==
    LET rest == [c EXCEPT !.inflight = @ \ {r}, !.failed = @ \/ ~ok] IN
    IF ~ok THEN rest
    ELSE IF r.kind = "semesters" THEN [rest EXCEPT !.semesters = 1]
    ELSE IF r.kind = "courses" THEN [rest EXCEPT !.courses = r.of.semester]
    ELSE IF r.kind = "assignments" THEN [rest EXCEPT !.assignments = r.of.course]
    ELSE [rest EXCEPT !.students = r.of]

\* any request in flight settles next
CompareResponse ==
    /\ \E r \in compare.inflight, ok \in BOOLEAN :
          compare' = CompareStored(compare, r, ok)
    /\ UNCHANGED <<mwVars, fetchVars, spVars, login, pageVars, authVars, browser>>

(***************************************************************************)
(* Navigation between /login and /semesters: router.push of the login page *)
(* (src/unnamed/part_049 lines 51-53), the middleware (src/unnamed/part_002)*)
(* and window.location of easyFetch (src/unnamed/part_007 line 37)         *)
(***************************************************************************)
BrowserIdle == [followed |-> 0, bounces |-> 0]

\* where a request for a protected route ends
Landing(out) == IF out = "next" THEN "/semesters" ELSE out

\* the router follows the push of the login page: the middleware answers the
\* request for /semesters and the login component is unmounted
NavFollow ==
    /\ location = "/login"
    /\ Len(login.pushes) > browser.followed
    /\ browser.bounces < MaxBounces
    /\ LET dest == Landing(Middleware002(mwAccess, mwRefresh, mwNow)) IN
       /\ location' = dest
       /\ browser' = [followed |-> Len(login.pushes), bounces |-> browser.bounces + 1]
    /\ login' = [InitLogin EXCEPT !.user = login.user, !.storedUser = login.storedUser,
                                  !.loginError = login.loginError,
                                  !.pushes = login.pushes, !.submits = login.submits]
    /\ UNCHANGED <<mwVars, calls, spVars, pageVars, authVars, compare>>

\* the login page is shown at /login only
NavLoginMount == location = "/login" /\ LoginMount
NavType == location = "/login" /\ (SetUsername \/ SetPassword)
\* the protected page loads its data
NavSemesters == location = "/semesters" /\ GetSemesters

PagesIdle ==
    /\ compare = CompareIdle
    /\ browser = BrowserIdle
    /\ refreshPage = RefreshIdle
    /\ logoutPage = LogoutIdle
    /\ callback = CallbackIdle
    /\ signIn = SignInIdle
    /\ redirect = RedirectIdle
    /\ jwt = JwtIdle

(***************************************************************************)
(* Specifications                                                          *)
(***************************************************************************)
\* the middleware answering requests
InitMw ==
    /\ mwAccess \in Tokens
    /\ mwRefresh \in Tokens
    /\ mwNow \in Times
    /\ mwOut = "pending"
    /\ mwOut3 = "pending"
    /\ FetchIdle
    /\ PairsIdle
    /\ LoginIdle
    /\ PagesIdle
NextMw == MwRequest \/ MwRun \/ MwRun003
SpecMw == InitMw /\ [][NextMw]_vars

\* pages calling easyFetch, calls overlapping
InitFetch == MwIdle /\ FetchIdle /\ PairsIdle /\ LoginIdle /\ PagesIdle
NextFetch == \E c \in Calls : RawCall(c) \/ EasyFetchStep(c)
SpecFetch == InitFetch /\ [][NextFetch]_vars

\* pages calling the data controllers
InitCtl == MwIdle /\ FetchIdle /\ PairsIdle /\ LoginIdle /\ PagesIdle
NextCtl ==
    \/ GetSemesters \/ GetCourses \/ GetAssignments \/ GetSubmissions
    \/ GetSimilarityPairs \/ GetSubmittedStudents
    \/ EasyFetchStep(1)
    \/ ControllerSettles
SpecCtl == InitCtl /\ [][NextCtl]_vars

\* GetSimilarityPairs building its request over all arguments
InitPairs ==
    /\ MwIdle /\ FetchIdle /\ LoginIdle /\ PagesIdle
    /\ \E z \in [ZeroArgs -> ArgVals], n \in [OptionalFilters \ ZeroArgs -> ArgVals \ {0}] :
          spArgs = PairsArgs(z, n)
    /\ spParams = <<>>
    /\ spBuilt = FALSE
NextPairs == BuildPairsUrl
SpecPairs == InitPairs /\ [][NextPairs]_vars

\* the login page
InitLoginPage ==
    /\ MwIdle /\ PairsIdle /\ PagesIdle
    /\ calls = [c \in Calls |-> IdleFrame]
    /\ \E su \in {Null, "bob"}, le \in {Null, GoogleError} :
         login = [InitLogin EXCEPT !.storedUser = su, !.loginError = le]
    /\ location = "/login"
NextLogin ==
    \/ LoginMount \/ SetUsername \/ SetPassword \/ HandleSubmit
    \/ EasyFetchStep(1)
    \/ LoginSettles
SpecLogin == InitLoginPage /\ [][NextLogin]_vars

\* the OAuth callback page and the login page in one tab, the /refresh page
\* in another
InitAuthPages == MwIdle /\ FetchIdle /\ PairsIdle /\ LoginIdle /\ PagesIdle
NextAuthPages ==
    \/ RefreshMount \/ RefreshSettles
    \/ CallbackSession \/ CallbackEffect \/ CallbackSettles
    \/ LoginMount \/ LoginUnmount
SpecAuthPages == InitAuthPages /\ [][NextAuthPages]_vars

\* visits of the /logout page
InitLogout == MwIdle /\ FetchIdle /\ PairsIdle /\ LoginIdle /\ PagesIdle
NextLogout == LogoutVisit \/ HasCookieAnswers \/ LogoutAnswers
SpecLogout == InitLogout /\ [][NextLogout]_vars

\* the redirect, jwt and session callbacks of authOptions
InitAuthOptions == MwIdle /\ FetchIdle /\ PairsIdle /\ LoginIdle /\ PagesIdle
NextAuthOptions ==
    RedirectCalled \/ JwtSignIn \/ JwtTick \/ JwtCall \/ JwtRefreshSettles
SpecAuthOptions == InitAuthOptions /\ [][NextAuthOptions]_vars

\* the student-comparison page, its requests answered in any order
InitCompare == MwIdle /\ FetchIdle /\ PairsIdle /\ LoginIdle /\ PagesIdle
NextCompare ==
    \/ CompareMount \/ SelectSemester \/ SelectCourse \/ SelectAssignment
    \/ HandleClear \/ CompareResponse
SpecCompare == InitCompare /\ [][NextCompare]_vars

\* a browser that was sent to /login, nobody submitting the form
InitNav ==
    /\ mwAccess \in Tokens
    /\ mwRefresh \in Tokens
    /\ mwNow \in Times
    /\ mwOut = "pending"
    /\ mwOut3 = "pending"
    /\ PairsIdle /\ PagesIdle
    /\ calls = [c \in Calls |-> IdleFrame]
    /\ \E su \in {Null, "bob"} : login = [InitLogin EXCEPT !.storedUser = su]
    /\ location = "/login"
NextNav ==
    \/ NavLoginMount \/ NavType \/ NavFollow
    \/ NavSemesters \/ EasyFetchStep(1) \/ ControllerSettles
SpecNav == InitNav /\ [][NextNav]_vars

\* sign-ins through NextAuth
InitSignIn == MwIdle /\ FetchIdle /\ PairsIdle /\ LoginIdle /\ PagesIdle
NextSignIn == SignInCalled \/ SignInSettles
SpecSignIn == InitSignIn /\ [][NextSignIn]_vars

(***************************************************************************)
(* Properties                                                              *)
(***************************************************************************)
\* what the exp claims say, compared as lines 32 and 47 compare them
AccessExpired    == Decodes(mwAccess) /\ mwAccess.exp # NoExp /\ mwNow > mwAccess.exp
AccessUnexpired  == Decodes(mwAccess) /\ mwAccess.exp # NoExp /\ ~(mwNow > mwAccess.exp)
RefreshUnexpired == Decodes(mwRefresh) /\ mwRefresh.exp # NoExp /\ mwNow < mwRefresh.exp
RefreshExpired   == Decodes(mwRefresh) /\ mwRefresh.exp # NoExp /\ ~(mwNow < mwRefresh.exp)

\* C1: the middleware of part_002 answers every request with exactly one of
\* continue, /login, /logout, /refresh: /login when both cookies are absent,
\* continue for a decodable unexpired access token, /refresh for an expired
\* access token with a decodable unexpired refresh token, /login when both
\* tokens are expired.
C1_BranchTable ==
    mwOut # "pending" =>
       /\ mwOut \in Outcomes
       /\ (mwAccess = AbsentTok /\ mwRefresh = AbsentTok) => mwOut = "/login"
       /\ AccessUnexpired => mwOut = "next"
       /\ (AccessExpired /\ RefreshUnexpired) => mwOut = "/refresh"
       /\ (AccessExpired /\ RefreshExpired) => mwOut = "/login"

\* C2: a request the middleware of part_002 lets continue carries an access
\* token that decodes and whose exp is not earlier than the current time.
C2_ContinueOnlyWithValidAccess ==
    mwOut = "next" =>
       /\ Decodes(mwAccess)
       /\ mwAccess.exp # NoExp
       /\ mwAccess.exp >= mwNow

Settled(f) == f.pc \in {"returned", "thrown", "done"}
Pending(f) == f.pc \in {"fetch1", "refresh", "fetch2"}
IsOriginal(f, r) == r.url = f.url /\ r.method = f.options.method

\* C3: a call of easyFetch issues at most three requests: the original one, at
\* most one POST to /api/token/refresh and only after a 401, at most one retry
\* and only after a successful refresh.  It awaits one response per request
\* and has settled, returning or throwing, once the last one arrived; a retry
\* answered 401 is returned as it is, with no further request and no navigation.
C3_AtMostThreeRequests ==
    \A c \in Calls :
       LET f == calls[c] IN
       f.pc # "idle" =>
          /\ Len(f.reqs) \in 1..3
          /\ IsOriginal(f, f.reqs[1])
          /\ Len(f.reqs) >= 2 => (f.reqs[2] = RefreshRequest /\ f.resps[1] = 401)
          /\ Len(f.reqs) = 3 =>
                (IsOriginal(f, f.reqs[3]) /\ f.resps[2] >= 200 /\ f.resps[2] <= 299)
          /\ Pending(f) => Len(f.resps) = Len(f.reqs) - 1
          /\ Settled(f) => Len(f.resps) = Len(f.reqs)
          /\ Settled(f) => ((f.err = "none") = (f.res # NoRes /\ f.res.of = Len(f.reqs)))
          /\ (Len(f.resps) = 3 /\ f.resps[3] = 401) =>
                (Settled(f) /\ f.err = "none" /\ f.res = Response(401, 3) /\ ~f.nav)

C3_Witness ==
    \E c \in Calls :
       /\ calls[c].pc = "returned"
       /\ calls[c].resps = <<401, 200, 401>>
       /\ Len(calls[c].reqs) = 3

\* C4: when the original request answers 401 and the refresh request answers
\* non-OK, the browser is sent to /login and the call throws
\* Error("Unauthorized"), with no retry and no response returned.
C4_FailedRefreshLogsOut ==
    \A c \in Calls :
       LET f == calls[c] IN
       (Len(f.resps) >= 2 /\ f.resps[1] = 401 /\ f.resps[2] \in {401, 404, 500}) =>
          /\ location = "/login"
          /\ f.pc \in {"thrown", "done"}
          /\ f.err = "Unauthorized"
          /\ f.nav
          /\ Len(f.reqs) = 2

C4_Witness ==
    \E c \in Calls :
       /\ calls[c].resps = <<401, 500>>
       /\ calls[c].pc = "thrown"
       /\ location = "/login"

\* C5: when the first response is not a 401, easyFetch returns exactly that
\* response after one request: no refresh, no retry, no navigation.
C5_Non401PassesThrough ==
    \A c \in Calls :
       LET f == calls[c] IN
       (Len(f.resps) >= 1 /\ f.resps[1] \in {200, 404, 500}) =>
          /\ Settled(f)
          /\ f.err = "none"
          /\ f.res = Response(f.resps[1], 1)
          /\ Len(f.reqs) = 1
          /\ f.refreshRes = NoRes
          /\ ~f.nav

C5_Witness ==
    \E c \in Calls :
       /\ calls[c].pc = "returned"
       /\ calls[c].resps = <<404>>
       /\ calls[c].res = Response(404, 1)

\* C6: every request of easyFetch is sent with credentials "include", whatever
\* credentials the caller's options name.
C6_CredentialsIncluded ==
    \A c \in Calls :
       \A i \in 1..Len(calls[c].reqs) : calls[c].reqs[i].credentials = "include"

C6_Witness ==
    \E c \in Calls :
       /\ calls[c].options.credentials = "omit"
       /\ Len(calls[c].reqs) = 3
       /\ calls[c].pc = "returned"

CtlFrame    == calls[1]
CtlDone     == CtlFrame.caller \in Controllers /\ CtlFrame.pc = "done"
CtlReturned == CtlDone /\ CtlFrame.err = "none"
CtlOk       == CtlFrame.res.status >= 200 /\ CtlFrame.res.status <= 299
CtlIsMessage == CtlFrame.result.kind = "message" /\ CtlFrame.result.message # ""
CtlIsData ==
    IF CtlFrame.caller = "GetSubmittedStudents"
    THEN /\ CtlFrame.result.kind = "students"
         /\ LET list == CtlFrame.result.students
                ids  == {CtlFrame.body.results[i] : i \in 1..Len(CtlFrame.body.results)} \ {0}
            IN  /\ {list[i] : i \in 1..Len(list)} = ids
                /\ Len(list) = Cardinality(ids)
    ELSE CtlFrame.result.kind = "data" /\ CtlFrame.result.data = CtlFrame.body
CtlIsDetail ==
    /\ CtlFrame.result.kind = "detail"
    /\ CtlFrame.result.status = CtlFrame.res.status
    /\ CtlFrame.result.detail =
          IF CtlFrame.body.kind = "json" /\ CtlFrame.body.detail \notin {Undef, Null}
          THEN CtlFrame.body.detail
          ELSE DefaultDetail(CtlFrame.caller)
\* the body gives the controller what it reads from it
CtlBodyReadable ==
    /\ CtlFrame.body.kind # "notjson"
    /\ CtlOk /\ CtlFrame.caller = "GetSubmittedStudents" =>
          (CtlFrame.body.kind = "json" /\ CtlFrame.body.hasResults)
    /\ ~CtlOk => CtlFrame.body.kind = "json"

\* C7 as stated: a data controller returns the parsed data for an OK response,
\* {detail, status} for a non-OK response, and a {message} object when
\* easyFetch throws.
C7_AsStated ==
    CtlDone =>
       /\ (CtlReturned /\ CtlOk) => CtlIsData
       /\ (CtlReturned /\ ~CtlOk) => CtlIsDetail
       /\ ~CtlReturned => CtlIsMessage

\* C7: a data controller never throws.  When easyFetch throws, or the body of
\* the response cannot be read (json() rejects, or the value read from is null
\* or lacks the list that is iterated), it returns a {message} object;
\* otherwise it returns the data of the body for an OK response and, for a
\* non-OK response, {detail, status} with the HTTP status and the body's
\* detail or the controller's default text.
C7_ControllerResults ==
    CtlDone =>
       /\ CtlFrame.result.kind \in {"data", "students", "detail", "message"}
       /\ (CtlReturned /\ CtlBodyReadable /\ CtlOk) => CtlIsData
       /\ (CtlReturned /\ CtlBodyReadable /\ ~CtlOk) => CtlIsDetail
       /\ (~CtlReturned \/ ~CtlBodyReadable) => CtlIsMessage

C7_Witness ==
    /\ CtlDone /\ CtlReturned
    /\ CtlFrame.caller = "GetSimilarityPairs"
    /\ CtlFrame.resps = <<401, 200, 500>>
    /\ CtlFrame.body.detail = Null
    /\ CtlFrame.result = DetailResult("Failed to fetch similarity pairs.", 500)

HasParam(params, key) == \E i \in 1..Len(params) : params[i][1] = key
ParamCount(params, key) == Cardinality({i \in 1..Len(params) : params[i][1] = key})
ParamValue(params, key) == params[CHOOSE i \in 1..Len(params) : params[i][1] = key][2]
ArgText(v) == IF v = 0 THEN "0" ELSE "1"

PairsFilters ==
    /\ ParamCount(spParams, "ordering") = 1
    /\ ParamValue(spParams, "ordering") = "-percentage"
    /\ \A k \in OptionalFilters :
          /\ HasParam(spParams, k) <=> spArgs[k] \notin {NullN, UndefN}
          /\ HasParam(spParams, k) =>
                (ParamCount(spParams, k) = 1 /\ ParamValue(spParams, k) = ArgText(spArgs[k]))

\* C8 as stated: the request has ordering=-percentage exactly once, each
\* optional filter iff its argument is neither null nor undefined, with the
\* argument's value, and asid iff assignment_id is given.
C8_AsStated ==
    spBuilt =>
       /\ PairsFilters
       /\ HasParam(spParams, "asid") <=> spArgs["assignment_id"] \notin {NullN, UndefN}

\* C8: the request has ordering=-percentage exactly once, each optional filter
\* iff its argument is neither null nor undefined, with the argument's value,
\* and asid, with the value of assignment_id, iff assignment_id is truthy
\* (neither null, undefined nor 0).
C8_PairsQuery ==
    spBuilt =>
       /\ PairsFilters
       /\ HasParam(spParams, "asid") <=> spArgs["assignment_id"] \notin {NullN, UndefN, 0}
       /\ HasParam(spParams, "asid") =>
             (ParamCount(spParams, "asid") = 1
              /\ ParamValue(spParams, "asid") = ArgText(spArgs["assignment_id"]))

C8_Witness ==
    /\ spBuilt
    /\ spArgs["assignment_id"] = 0
    /\ spArgs["course"] = 0
    /\ spArgs["page"] = NullN
    /\ spParams = <<Param("course", "0"), Param("student1", "1"),
                    Param("ordering", "-percentage")>>

SubmitStep == login'.submits = login.submits + 1
FieldEmpty == login.username = "" \/ login.password = ""

\* C9: submitting the login form with an empty username or password issues no
\* request and shows "Username and password are required."; the loading flag
\* and the stored user stay as they are.
C9_EmptySubmit ==
    [][(SubmitStep /\ FieldEmpty) =>
          /\ calls' = calls
          /\ login'.message = "Username and password are required."
          /\ login'.loading = login.loading
          /\ login'.user = login.user
          /\ login'.storedUser = login.storedUser]_vars

C9_Witness ==
    /\ login.submits = 1
    /\ login.username = "u" /\ login.password = ""
    /\ login.message = RequiredText
    /\ calls[1].pc = "idle"
    /\ ~login.loading

LoginPending(f) == f.caller = "login" /\ f.pc \in {"fetch1", "refresh", "fetch2"}
LoginOkStep ==
    /\ calls[1].caller = "login" /\ calls[1].pc = "returned" /\ calls'[1].pc = "done"
    /\ calls[1].res.status >= 200 /\ calls[1].res.status <= 299
    /\ calls'[1].body.kind = "json" /\ calls'[1].body.user # Undef
LoginRecordsThenNavigates ==
    /\ login'.user = calls'[1].body.user
    /\ login'.storedUser = calls'[1].body.user
    /\ Len(login'.pushes) > Len(login.pushes)
    /\ login'.pushes[Len(login.pushes) + 1] = "/semesters/"

\* C10 as stated: an OK answer to the login request makes the component record
\* the returned user and then navigate to /semesters/, and the component
\* navigates nowhere while the answer is outstanding.
C10_AsStated ==
    [][/\ LoginOkStep => LoginRecordsThenNavigates
       /\ LoginPending(calls'[1]) => login'.pushes = login.pushes]_vars

\* C10: an OK answer to the login request that carries a user makes the
\* component record that user through login(data.user) and then navigate to
\* /semesters/; when no user is logged in as the form is submitted, the
\* component navigates nowhere while the answer is outstanding.
C10_LoginSuccess ==
    [][/\ LoginOkStep => LoginRecordsThenNavigates
       /\ (LoginPending(calls'[1]) /\ login.user = Null) => login'.pushes = login.pushes]_vars

C10_Witness ==
    /\ calls[1].caller = "login" /\ calls[1].pc = "done"
    /\ calls[1].resps = <<200>>
    /\ login.user = "alice"
    /\ login.storedUser = "alice"
    /\ login.pushes = <<"/semesters/", "/semesters">>
    /\ ~login.loading

LoginSettleStep ==
    calls[1].caller = "login" /\ calls[1].pc \in {"returned", "thrown"} /\ calls'[1].pc = "done"
\* the answer to the login request: to the repeated request when there is one
LoginAnswer(f) == IF Len(f.resps) = 3 THEN f.resps[3] ELSE f.resps[1]
LoginNonOk(f) == LoginAnswer(f) # NetErr /\ ~(LoginAnswer(f) >= 200 /\ LoginAnswer(f) <= 299)
BackendMessage(body) ==
    IF body.kind = "json" /\ body.hasErrors /\ Len(body.errors) > 0
    THEN body.errors[1]
    ELSE "Login failed. Please try again."

\* C11: when the login request is answered with a non-OK response, the login
\* component shows the first non_field_errors message of the backend, or
\* "Login failed. Please try again." when there is none, records no user and
\* navigates nowhere. (Taken for a user who is not logged in yet and for an
\* answer whose body, when it is read, parses.)
C11_NonOkLogin ==
    [][(/\ LoginSettleStep
        /\ LoginNonOk(calls[1])
        /\ calls'[1].body.kind # "notjson"
        /\ login.user = Null)
       => /\ login'.message = BackendMessage(calls'[1].body)
          /\ login'.user = login.user
          /\ login'.storedUser = login.storedUser
          /\ login'.pushes = login.pushes]_vars

LoginInFlight ==
    calls[1].caller = "login" /\ calls[1].pc \in {"fetch1", "refresh", "fetch2", "returned", "thrown"}

\* C12: the login button (disabled={loading}) is disabled exactly while a
\* submitted login request has not been dealt with: from the submission that
\* sends it until handleSubmit has finished with its outcome, whether that is
\* an OK response, a non-OK response or a thrown error.
C12_DisabledWhileInFlight == login.loading <=> LoginInFlight

\* the button is enabled again after a thrown error
C12_Witness ==
    /\ calls[1].caller = "login" /\ calls[1].pc = "done"
    /\ calls[1].err = "Unauthorized"
    /\ login.message = UnexpectedText
    /\ login.submits = 1
    /\ ~login.loading

\* C13: the middleware of part_003 never lets a request with an expired
\* access token continue: it redirects it to /refresh when the refresh token
\* is decodable and unexpired, and to /logout when the refresh token is
\* missing, undecodable or expired.
C13_ExpiredAccess003 ==
    (mwOut3 # "pending" /\ AccessExpired) =>
       /\ mwOut3 # "next"
       /\ RefreshUnexpired => mwOut3 = "/refresh"
       /\ (~TruthyTok(mwRefresh) \/ ~Decodes(mwRefresh) \/ RefreshExpired) => mwOut3 = "/logout"

\* C14: for every combination of cookies and current time the middleware of
\* part_002 and the middleware of part_003 let the same requests continue and
\* send the same requests to /refresh; they differ only in redirecting to
\* /login or to /logout.
C14_SameDecisions ==
    (mwOut # "pending" /\ mwOut3 # "pending") =>
       /\ mwOut = "next" <=> mwOut3 = "next"
       /\ mwOut = "/refresh" <=> mwOut3 = "/refresh"

\* C15: in the middleware of part_002 an access token that cannot be decoded
\* is redirected to /logout whatever the refresh cookie holds, and a refresh
\* token that cannot be decoded is redirected to /logout whenever the access
\* token is expired.
C15_UndecodableToLogout ==
    mwOut # "pending" =>
       /\ (TruthyTok(mwAccess) /\ ~Decodes(mwAccess)) => mwOut = "/logout"
       /\ (AccessExpired /\ TruthyTok(mwRefresh) /\ ~Decodes(mwRefresh)) => mwOut = "/logout"

RefreshFailed ==
    /\ refreshPage.pc = "done"
    /\ refreshPage.status = NetErr \/ ~(refreshPage.status >= 200 /\ refreshPage.status <= 299)

\* C16: when the refresh request of the /refresh page fails, by a network
\* error or by a non-OK response, the page navigates to /login.
C16_FailedRefreshToLogin == RefreshFailed => refreshPage.pushes = <<"/login">>

LogoutPosted == logoutPage.rev = "logout/page.tsx" /\ logoutPage.posts > 0
CookiesPresent == TruthyTok(logoutPage.access) /\ TruthyTok(logoutPage.refresh)
LogoutAccessExpired ==
    /\ Decodes(logoutPage.access)
    /\ logoutPage.access.exp # NoExp
    /\ logoutPage.now > logoutPage.access.exp

\* C17: the logout page sends POST /api/logout only when the has-cookie check
\* found both auth cookies present and the access token unexpired; when
\* HasCookie reports 404 (a cookie is missing) or 401 (the access token is
\* expired) the page sends no logout request.
C17_PostOnlyWithCookies ==
    /\ LogoutPosted => (CookiesPresent /\ ~LogoutAccessExpired)
    /\ (logoutPage.rev = "logout/page.tsx" /\ logoutPage.check.reported \in {404, 401})
          => logoutPage.posts = 0

LogoutAnswered ==
    /\ logoutPage.pc = "done"
    /\ logoutPage.posts > 0
    /\ logoutPage.status # NetErr
    /\ logoutPage.body = "json"

\* C18: with a NextAuth session, the logout flow has invoked
\* signOut({callbackUrl: "/login"}) by the time it ends, whether the backend
\* answered the logout request with an OK or with a non-OK response, and with
\* or without auth cookies. (Taken for a logout request that is answered and
\* whose body parses.)
C18_SignOutAlways ==
    (logoutPage.session /\ LogoutAnswered) => logoutPage.signOuts = 1

CallbackSettleStep == callback.pc = "verifying" /\ callback'.pc = "done"
CallbackThrew == callback'.status = NetErr \/ callback'.body.kind = "notjson"
CallbackOk == ~CallbackThrew /\ callback'.status >= 200 /\ callback'.status <= 299
CallbackPushed(route) ==
    callback'.pushes = Append(callback.pushes, route)
VerifyMessage(body) ==
    IF body.kind = "json" /\ body.hasErrors /\ Len(body.errors) > 0
    THEN body.errors[1]
    ELSE "Authentication failed."
LoginMountStep == ~login.hydrated /\ login'.hydrated

\* C19: a login error of the OAuth callback page is shown exactly once. When
\* the verification throws (no response, or a body that does not parse) the
\* page stores "Unexpected error during authentication." under loginError,
\* when it answers non-OK the page stores the first non_field_errors message
\* or "Authentication failed.", and in both cases it navigates to /login;
\* when it answers OK the page navigates to /dashboard and stores nothing.
\* Nothing else stores a login error. A mount of the login page shows the
\* stored error and removes it, and shows no error when none is stored.
C19_LoginErrorShownOnce ==
    [][/\ (CallbackSettleStep /\ CallbackThrew) =>
            /\ login'.loginError = "Unexpected error during authentication."
            /\ CallbackPushed("/login")
       /\ (CallbackSettleStep /\ ~CallbackThrew /\ ~CallbackOk) =>
            /\ login'.loginError = VerifyMessage(callback'.body)
            /\ CallbackPushed("/login")
       /\ (CallbackSettleStep /\ CallbackOk) =>
            /\ login'.loginError = login.loginError
            /\ CallbackPushed("/dashboard")
       /\ (login'.loginError # login.loginError /\ login'.loginError # Null) =>
            (CallbackSettleStep /\ ~CallbackOk)
       /\ LoginMountStep =>
            /\ login'.loginError = Null
            /\ login'.message = login.loginError]_vars

\* the login page shows the message of a non-OK verification and has removed it
C19_Witness ==
    /\ callback.pc = "done"
    /\ callback.status = 401
    /\ callback.pushes = <<"/login">>
    /\ login.hydrated
    /\ login.message = "Invalid credentials"
    /\ login.loginError = Null

\* the domain of an address: what follows the @, in lower case
InDomain(email) ==
    /\ email # NoEmail
    /\ \E i \in 1..Len(email) :
          /\ email[i] = "@"
          /\ ToLowerCase(SubSeq(email, i + 1, Len(email))) \in
                {<<"unlv", ".edu">>, <<"unlv", ".nevada", ".edu">>}

\* C20: for a user whose e-mail address is not in the unlv.edu or
\* unlv.nevada.edu domain the signIn callback returns false and sends no
\* token-validation request.
C20_OnlyUnlvDomains ==
    (signIn.pc # "idle" /\ ~InDomain(signIn.email)) =>
       /\ signIn.requests = 0
       /\ signIn.pc = "done" => signIn.result = "false"

\* the origin of an absolute URL: its scheme and its authority without the
\* userinfo; <<>> for a relative URL
UrlAuthority(url) ==
    LET paths == {i \in 2..Len(url) : url[i] \in PathPieces}
        last == IF paths = {} THEN Len(url)
                ELSE (CHOOSE i \in paths : \A j \in paths : i <= j) - 1
    IN  SubSeq(url, 2, last)
UrlHost(authority) ==
    LET ats == {i \in 1..Len(authority) : authority[i] = "@"} IN
    IF ats = {} THEN authority
    ELSE SubSeq(authority, (CHOOSE i \in ats : \A j \in ats : i >= j) + 1, Len(authority))
UrlOrigin(url) ==
    IF Len(url) > 0 /\ url[1] \in Schemes
    THEN <<url[1]>> \o UrlHost(UrlAuthority(url))
    ELSE <<>>

\* C21: the redirect callback never sends the user to another origin: its
\* result is baseUrl itself or a URL whose origin is baseUrl.
C21_RedirectSameOrigin ==
    redirect.pc = "done" =>
       \/ redirect.result = redirect.baseUrl
       \/ UrlOrigin(redirect.result) = redirect.baseUrl

\* C22: after every call of the jwt callback that returns a token, the error
\* field of the session is "RefreshTokenError" exactly when the most recent
\* refresh attempt failed; after a successful refresh the token carries no
\* error.
C22_ErrorIffLastRefreshFailed ==
    (jwt.pc = "ready" /\ ~jwt.thrown) =>
       /\ jwt.session = "RefreshTokenError" <=> jwt.last = "failed"
       /\ jwt.last = "ok" => jwt.token.error = Undef

NoValidTokens == ~AccessUnexpired /\ ~RefreshUnexpired

\* C23: a user without valid tokens who was sent to /login rests on the login
\* form: as long as no login has succeeded the login page navigates nowhere,
\* so the browser never comes back to /login from a protected route.
C23_RestsOnLoginForm ==
    NoValidTokens => (login.pushes = <<>> /\ browser.bounces = 0)

CompareSettled == compare.mounted /\ compare.inflight = {} /\ ~compare.failed

\* C24: once no request is in flight (and none has failed), the lists of the
\* student-comparison page are empty or belong to the current selection: the
\* courses to the selected semester, the assignments to the selected course,
\* the students to the selected course, assignment and semester.
C24_ListsBelongToSelection ==
    CompareSettled =>
       /\ compare.semester > 0 => compare.courses \in {NoList, compare.semester}
       /\ compare.course > 0 => compare.assignments \in {NoList, compare.course}
       /\ compare.students \in
             {NoStudents, Selection(compare.course, compare.assignment, compare.semester)}

\* what the responses to the requests of a call make of the call
OwnError(resps) ==
    IF resps[Len(resps)] = NetErr THEN "TypeError"
    ELSE IF Len(resps) = 2 /\ ~(resps[2] >= 200 /\ resps[2] <= 299) THEN "Unauthorized"
    ELSE "none"
OwnRefreshes(f) == {i \in 1..Len(f.reqs) : f.reqs[i] = RefreshRequest}

\* C25: concurrent calls of easyFetch do not interfere. A step of one call
\* leaves the state of every other call as it is; a call sends at most one
\* refresh request; and the result of a settled call is decided by the
\* responses to its own requests alone: it throws TypeError when its last
\* request got no response, it throws Error("Unauthorized") after sending the
\* browser to /login when its refresh request was answered non-OK, and
\* otherwise it returns the response to its last request.
C25_NoInterference ==
    [][\A c \in Calls :
          LET f == calls'[c] IN
          /\ calls'[c] # calls[c] => \A d \in Calls \ {c} : calls'[d] = calls[d]
          /\ Cardinality(OwnRefreshes(f)) <= 1
          /\ f.pc \in {"returned", "thrown", "done"} =>
                /\ f.err = OwnError(f.resps)
                /\ (f.pc = "thrown") = (f.err # "none")
                /\ f.err = "none" => f.res.status = f.resps[Len(f.resps)]
                /\ f.nav = (f.err = "Unauthorized")
                /\ f.nav => location' = "/login"]_vars

\* one call has been refused its refresh and has sent the browser to /login
\* while the other call, refreshed by a request of its own, is retrying
C25_Witness ==
    /\ calls[1].pc = "fetch2"
    /\ calls[1].resps = <<401, 200>>
    /\ calls[2].pc = "thrown"
    /\ calls[2].resps = <<401, 401>>
    /\ calls[2].err = "Unauthorized"
    /\ location = "/login"

====
